---- MODULE Spec2Model ----
(***************************************************************************)
(* Model of src/index.js: the comment fetcher getComments, the batch       *)
(* scheduler runInBatches and the GET /search request handler.             *)
(*                                                                         *)
(* JavaScript runs one callback at a time to completion.  Synchronous      *)
(* stretches of code are split into small actions that are taken while     *)
(* Busy holds; every external event (a provider reply, a timer, the        *)
(* settling of a caller-supplied fn) is guarded by ~Busy, so no event      *)
(* interleaves with a synchronous stretch or with a continuation that is   *)
(* already queued.  An event action includes the promise continuations it  *)
(* triggers up to the next await.                                          *)
(***************************************************************************)
EXTENDS Integers, Sequences, FiniteSets, TLC

VARIABLES
    req,             \* the request's query parameters (req.query)
    world,           \* what the three providers will answer to this request
    hpc,             \* /search handler: position in the handler
    suggestionCount, \* /search handler: effective suggestionCount
    videoCount,      \* /search handler: effective videoCount
    sanitizedQuery,  \* /search handler: trimmed and truncated query
    suggestions,     \* /search handler: suggestions obtained
    terms,           \* /search handler: the search terms
    searchResults,   \* /search handler: allSettled entry of each per-term search
    merged,          \* /search handler: merged per-term results
    uniqueVideos,    \* /search handler: ranked list
    response,        \* the HTTP response sent (status 0: none yet)
    items,           \* runInBatches: the items argument
    batchSize,       \* runInBatches: the batchSize argument
    i,               \* runInBatches: the loop index
    results,         \* runInBatches: the results array
    rbpc,            \* runInBatches: position in the function
    mapj,            \* runInBatches: number of batch items batch.map has visited
    inv,             \* state of the promise returned by fn for each item
    gc,              \* state of the getComments call made for each item
    server,          \* the HTTP server: "listening", "closing" or "closed"
    connections,     \* number of connections with a request in flight
    closeListeners,  \* the callbacks given to server.close, in call order
    graceTimers,     \* number of forced-shutdown timers armed and not fired
    received,        \* the signals and process errors handled so far
    exitCode         \* the code the process exited with (Running: it has not)

handlerVars == <<req, world, hpc, suggestionCount, videoCount, sanitizedQuery,
                 suggestions, terms, searchResults, merged, uniqueVideos, response>>
batchVars == <<items, batchSize, i, results, rbpc, mapj>>
procVars == <<server, connections, closeListeners, graceTimers, received, exitCode>>
vars == <<handlerVars, batchVars, inv, gc, procVars>>

(* ----------------------------- bounds ---------------------------------- *)
\* runInBatches on its own: longest items array and largest batchSize tried
MaxItems == 12
MaxBatchSize == 5
\* /search: most videos ranked in the enrichment scenarios, and most of them
\* whose Comment Provider answers (the others never resolve)
MaxVideos == 6
MaxAnswering == 2

(* ------------------------ program constants ---------------------------- *)
DefaultSuggestionCount == 4
MaxSuggestionCount == 10
DefaultVideoCount == 15
MinVideoCount == 1
MaxVideoCount == 50
QueryMaxLen == 100
QueryMinLen == 2
SearchLimit == 3
EnrichBatchSize == 5
CommentLimit == 15
MinCommentLen == 15

(* --------------------------- helpers ----------------------------------- *)
Min(a, b) == IF a < b THEN a ELSE b
Max(a, b) == IF a > b THEN a ELSE b

\* Array.prototype.slice(start, end) / String.prototype.slice(start, end) on
\* a 0-based array or string held as a sequence, 0 <= start <= end
Slice(arr, start, end) ==
    SubSeq(arr, Min(start, Len(arr)) + 1, Min(end, Len(arr)))

\* a query parameter is <<>> when absent and <<s>> when given as the string s
Given(p) == Len(p) = 1

\* the string without its first n characters
Drop(s, n) == SubSeq(s, n + 1, Len(s))

CharAt(s, k) == SubSeq(s, k, k)

\* number of leading blanks of s
LeadingBlanks(s) ==
    CHOOSE n \in 0..Len(s) :
        /\ \A k \in 1..n : CharAt(s, k) = " "
        /\ n < Len(s) => CharAt(s, n + 1) # " "

\* number of trailing blanks of s
TrailingBlanks(s) ==
    CHOOSE n \in 0..Len(s) :
        /\ \A k \in (Len(s) - n + 1)..Len(s) : CharAt(s, k) = " "
        /\ n < Len(s) => CharAt(s, Len(s) - n) # " "

TrimStart(s) == Drop(s, LeadingBlanks(s))

\* String.prototype.trim
Trim(s) ==
    IF LeadingBlanks(s) = Len(s) THEN ""
    ELSE SubSeq(s, LeadingBlanks(s) + 1, Len(s) - TrailingBlanks(s))

Digits == {"0", "1", "2", "3", "4", "5", "6", "7", "8", "9"}
DigitVal(c) == CHOOSE d \in 0..9 : ToString(d) = c

\* length of the longest prefix of s made of decimal digits
DigitPrefixLen(s) ==
    CHOOSE n \in 0..Len(s) :
        /\ \A k \in 1..n : CharAt(s, k) \in Digits
        /\ n < Len(s) => CharAt(s, n + 1) \notin Digits

\* value of the first n characters of s, which are decimal digits
RECURSIVE DecimalVal(_, _)
DecimalVal(s, n) ==
    IF n = 0 THEN 0
    ELSE 10 * DecimalVal(s, n - 1) + DigitVal(CharAt(s, n))

\* parseInt(p) of a query parameter: <<>> for NaN, <<n>> for the integer n.
\* Leading blanks are skipped, an optional sign is read, then the longest
\* run of decimal digits; anything after it is ignored.
ParseInt(p) ==
    IF ~Given(p) THEN <<>>
    ELSE LET t == TrimStart(p[1])
             neg == Len(t) > 0 /\ CharAt(t, 1) = "-"
             signed == Len(t) > 0 /\ CharAt(t, 1) \in {"-", "+"}
             u == IF signed THEN Drop(t, 1) ELSE t
             n == DigitPrefixLen(u)
         IN IF n = 0 THEN <<>>
            ELSE <<(IF neg THEN -1 ELSE 1) * DecimalVal(u, n)>>

\* x || d for the result x of parseInt: NaN and 0 are falsy
OrDefault(x, d) == IF x = <<>> \/ x[1] = 0 THEN d ELSE x[1]

\* Math.min(Math.max(parseInt(p) || 4, 0), 10)
ParseSuggestionCount(p) ==
    Min(Max(OrDefault(ParseInt(p), DefaultSuggestionCount), 0), MaxSuggestionCount)

\* faulty variant: videoCount is not clamped to [1, 50]
ParseVideoCountNoClamp(p) == OrDefault(ParseInt(p), DefaultVideoCount)

\* Math.min(Math.max(parseInt(p) || 15, 1), 50)
ParseVideoCount(p) ==
    Min(Max(OrDefault(ParseInt(p), DefaultVideoCount), MinVideoCount), MaxVideoCount)

\* faulty variant: the query is truncated without being trimmed
SanitizeNoTrim(q) == Slice(q, 0, QueryMaxLen)

\* query.trim().slice(0, 100)
Sanitize(q) == Slice(Trim(q), 0, QueryMaxLen)

(* ------------------------- merge and rank ------------------------------ *)
\* A video summary is a record [id, title, url, views, uploadedAt].  A string
\* field that is absent is "", views that is absent is 0: the code reads
\* these fields only through truthiness tests and `||`, which treat an
\* absent field, "" and 0 alike.  A null entry is an entry with id "".

\* Array.prototype.flat on the arrays ss[k], ss[k + 1], ...
RECURSIVE FlatFrom(_, _)
FlatFrom(ss, k) == IF k > Len(ss) THEN <<>> ELSE ss[k] \o FlatFrom(ss, k + 1)

Flat(ss) == FlatFrom(ss, 1)

HasId(v) == v.id # ""

\* searchResults.filter(fulfilled).map(value).flat().filter(video && video.id)
Merge(sr) ==
    LET IsFulfilled(r) == r.status = "fulfilled"
        fulfilled == SelectSeq(sr, IsFulfilled)
        values == [k \in 1..Len(fulfilled) |-> fulfilled[k].value]
    IN SelectSeq(Flat(values), HasId)

\* positions of arr at which an id occurs for the first time
FirstPositions(arr) ==
    {p \in DOMAIN arr : \A r \in 1..(p - 1) : arr[r].id # arr[p].id}

\* the last position of arr that holds the id found at position p
LastPosition(arr, p) ==
    CHOOSE r \in DOMAIN arr :
        /\ arr[r].id = arr[p].id
        /\ \A t \in DOMAIN arr : arr[t].id = arr[p].id => t <= r

\* the q-th smallest element of the set P of positions
NthPosition(P, q) == CHOOSE p \in P : Cardinality({r \in P : r <= p}) = q

\* faulty variant: the entries are not keyed by id
MapValuesNoDedupe(arr) == arr

\* faulty variant: a key that is set again keeps its first value
MapValuesKeepFirst(arr) ==
    [q \in 1..Cardinality(FirstPositions(arr)) |-> arr[NthPosition(FirstPositions(arr), q)]]

\* Array.from(new Map(arr.map(v => [v.id, v])).values()): Map.prototype.set
\* keeps a key at the position of its first insertion and gives it the value
\* set last
MapValues(arr) ==
    [q \in 1..Cardinality(FirstPositions(arr)) |->
        arr[LastPosition(arr, NthPosition(FirstPositions(arr), q))]]

\* position of arr[p] once arr is sorted by views, descending; the sort is
\* stable, entries with equal views keep their order
SortedPosition(arr, p) ==
    1 + Cardinality({r \in DOMAIN arr : arr[r].views > arr[p].views})
      + Cardinality({r \in 1..(p - 1) : arr[r].views = arr[p].views})

\* faulty variant: the comparator is a.views - b.views
SortByViewsAscending(arr) ==
    [q \in DOMAIN arr |->
        arr[CHOOSE p \in DOMAIN arr : SortedPosition(arr, p) = Len(arr) + 1 - q]]

\* arr.sort((a, b) => (b.views || 0) - (a.views || 0))
SortByViews(arr) ==
    [q \in DOMAIN arr |-> arr[CHOOSE p \in DOMAIN arr : SortedPosition(arr, p) = q]]

HasViewsAndId(v) == v.views # 0 /\ v.id # ""

JsNull == "<null>"

\* the record the enrichment function returns for video v
EnrichedVideo(v, comments) ==
    [id |-> v.id,
     title |-> IF v.title # "" THEN v.title ELSE "Unknown Title",
     url |-> IF v.url # "" THEN v.url ELSE "https://youtube.com/watch?v=" \o v.id,
     views |-> v.views,
     uploadedAt |-> IF v.uploadedAt # "" THEN v.uploadedAt ELSE JsNull,
     comments |-> comments]

(* --------------------------- runInBatches ------------------------------ *)
\* the indices (1-based) of the items of the current batch
BatchIdx == (i + 1) .. Min(i + batchSize, Len(items))

\* faulty variant: a combinator that reports every promise as fulfilled
OutcomeAllFulfilled(p) == [status |-> "fulfilled", value |-> p.value]

\* an entry of the array Promise.allSettled resolves with
Outcome(p) == [status |-> p.state, value |-> p.value]

\* the value of a promise that has none (yet)
NoValue == [none |-> TRUE]

NoPromise == [state |-> "none", value |-> NoValue]

Settled(p) == p.state \in {"fulfilled", "rejected"}

Pending == {k \in DOMAIN inv : inv[k].state = "pending"}

\* a synchronous stretch is running or a continuation is already queued
Busy ==
    \/ hpc = "start"
    \/ hpc = "search" /\ \A k \in DOMAIN searchResults : Settled(searchResults[k])
    \/ hpc = "enrich" /\ rbpc = "returned"
    \/ rbpc \in {"loop", "map"}
    \/ rbpc = "await" /\ \A k \in BatchIdx : Settled(inv[k])

\* for (let i = 0; i < items.length; i += batchSize) { batch = items.slice(...)
RB_LoopTest ==
    /\ rbpc = "loop"
    /\ IF i < Len(items)
          THEN rbpc' = "map"
          ELSE rbpc' = "returned"
    /\ mapj' = 0
    /\ UNCHANGED <<procVars, handlerVars, items, batchSize, i, results, inv, gc>>

\* batch.map(fn): one call of fn, on the next item of the batch, items[i +
\* mapj + 1]; threw is TRUE when the call throws, which ends runInBatches
RB_MapStep(threw) ==
    /\ rbpc = "map"
    /\ LET batch == Slice(items, i, i + batchSize)
       IN IF threw
             THEN /\ rbpc' = "threw"
                  /\ mapj' = mapj
             ELSE /\ mapj' = mapj + 1
                  /\ rbpc' = IF mapj + 1 = Len(batch) THEN "await" ELSE "map"
    /\ UNCHANGED <<procVars, handlerVars, items, batchSize, i, results>>

\* faulty variant: the await resumes as soon as one promise of the batch has settled
RB_BatchSettledAny ==
    /\ rbpc = "await"
    /\ \E k \in BatchIdx : Settled(inv[k])
    /\ LET batch == Slice(items, i, i + batchSize)
           batchResults == [j \in 1..Len(batch) |-> Outcome(inv[i + j])]
       IN results' = results \o batchResults
    /\ i' = i + batchSize
    /\ rbpc' = "loop"
    /\ UNCHANGED <<procVars, handlerVars, items, batchSize, mapj, inv, gc>>

\* await Promise.allSettled(...) resumes once every promise of the batch has
\* settled; results.push(...batchResults); i += batchSize
RB_BatchSettled ==
    /\ rbpc = "await"
    /\ \A k \in BatchIdx : Settled(inv[k])
    /\ LET batch == Slice(items, i, i + batchSize)
           batchResults == [j \in 1..Len(batch) |-> Outcome(inv[i + j])]
       IN results' = results \o batchResults
    /\ i' = i + batchSize
    /\ rbpc' = "loop"
    /\ UNCHANGED <<procVars, handlerVars, items, batchSize, mapj, inv, gc>>

(* ------------------ a caller-supplied fn (any function) ---------------- *)
\* the value, or the reason, the promise of fn(item) settles with
FnValue(item) == [of |-> item]

\* fn(items[k]) either throws at the call or returns a promise (a plain
\* return value is a promise that is already fulfilled for allSettled)
FnInvoke(k, threw) ==
    IF threw
       THEN inv' = inv
       ELSE inv' = [inv EXCEPT ![k] = [state |-> "pending", value |-> FnValue(items[k])]]

RB_MapFn ==
    /\ hpc = "none"
    /\ \E threw \in BOOLEAN : RB_MapStep(threw) /\ FnInvoke(i + mapj + 1, threw)
    /\ gc' = gc

\* the promise returned by fn for items[k] settles
FnSettle(k, st) ==
    /\ hpc = "none"
    /\ ~Busy
    /\ inv[k].state = "pending"
    /\ inv' = [inv EXCEPT ![k].state = st]
    /\ UNCHANGED <<procVars, handlerVars, batchVars, gc>>

(* ----------------------------- getComments ----------------------------- *)
\* The Comment Provider's behaviour for one video is a record
\*   ctor     - FALSE when new YoutubeCommentDownloader() throws
\*   open     - downloader.getComments(): "ok", "throw" (throws at the call),
\*              "reject" (its promise rejects), "hang" (never settles)
\*   comments - the comments the iterator delivers, in order
\*   end      - after the last comment the iterator is "done", or it
\*              "throw"s, or it "hang"s
ProviderFor(videoId) == world.provider[videoId]

\* a getComments call: its arguments, the state and value of the promise it
\* returned, the task (the async block of lines 23-36) with the number of
\* comments it has consumed and its comments array, the timer, and which
\* side of the race settled the call ("task", or "catch" for the catch block)
NoCall == [videoId |-> "", limit |-> 0, state |-> "none", value |-> <<>>,
           task |-> "none", pos |-> 0, comments |-> <<>>, timer |-> "none",
           won |-> "none"]

\* faulty variant: whichever of the task and the timer settles last decides
RaceSettleLast(c, won) ==
    [c EXCEPT !.state = "fulfilled", !.won = won,
              !.value = IF won = "task" THEN c.comments ELSE <<>>]

\* Promise.race([task, timeout]) settles with the first of the two to settle,
\* and getComments returns: the task's comments, or [] from the catch block.
\* Once getComments has returned, a later settling changes nothing.
RaceSettle(c, won) ==
    IF c.state # "pending" THEN c
    ELSE [c EXCEPT !.state = "fulfilled", !.won = won,
                   !.value = IF won = "task" THEN c.comments ELSE <<>>]

\* getComments(videoId, limit) up to its first await
GC_Call(videoId, limit) ==
    LET p == ProviderFor(videoId)
        c == [NoCall EXCEPT !.videoId = videoId, !.limit = limit]
    IN IF ~p.ctor
          THEN [c EXCEPT !.state = "rejected"]
          ELSE IF p.open = "throw"
                  THEN RaceSettle([c EXCEPT !.state = "pending", !.timer = "armed",
                                            !.task = "failed"], "catch")
                  ELSE [c EXCEPT !.state = "pending", !.timer = "armed",
                                 !.task = "opening"]

\* the iterator delivers its next comment: keep it if its text is longer
\* than 15 characters, and leave the loop once limit comments are kept
GC_Consume(c) ==
    LET comment == ProviderFor(c.videoId).comments[c.pos + 1]
        kept == IF Len(comment.text) > MinCommentLen
                   THEN Append(c.comments, comment.text)
                   ELSE c.comments
        d == [c EXCEPT !.pos = c.pos + 1, !.comments = kept]
    IN IF Len(kept) >= c.limit
          THEN RaceSettle([d EXCEPT !.task = "returned"], "task")
          ELSE d

\* a Comment Provider fetch that has started and not finished
Running == {k \in DOMAIN gc : gc[k].task \in {"opening", "iterating"}}

(* -------------------- the enrichment function of /search --------------- *)
\* faulty variant: getComments is awaited without Promise.allSettled and
\* without the try block, so its rejection rejects the enrichment function
EnrichResumeUnguarded(k, c) ==
    IF c.state = "fulfilled"
       THEN [state |-> "fulfilled", value |-> EnrichedVideo(items[k], c.value)]
       ELSE [state |-> "rejected", value |-> NoValue]

\* the async function resumes when getComments has settled and returns the
\* enriched record (comments [] when getComments rejected)
EnrichResume(k, c) ==
    [state |-> "fulfilled",
     value |-> EnrichedVideo(items[k], IF c.state = "fulfilled" THEN c.value ELSE <<>>)]

\* the getComments call of item k moves to c, and the enrichment function of
\* that item resumes if the call has just settled
GC_Update(k, c) ==
    /\ gc' = [gc EXCEPT ![k] = c]
    /\ inv' = IF inv[k].state = "pending" /\ c.state # "pending"
                 THEN [inv EXCEPT ![k] = EnrichResume(k, c)]
                 ELSE inv

\* fn(v): calls getComments(v.id, 15) and awaits it; it is an async function
\* and never throws at the call
EnrichInvoke(k) ==
    LET c == GC_Call(items[k].id, CommentLimit)
    IN /\ gc' = [gc EXCEPT ![k] = c]
       /\ inv' = [inv EXCEPT ![k] =
                    IF c.state = "pending"
                       THEN [state |-> "pending", value |-> NoValue]
                       ELSE EnrichResume(k, c)]

RB_MapEnrich ==
    /\ hpc = "enrich"
    /\ RB_MapStep(FALSE)
    /\ EnrichInvoke(i + mapj + 1)

\* downloader.getComments() resolves with the iterator
GC_OpenResolve(k) ==
    /\ ~Busy
    /\ gc[k].task = "opening"
    /\ ProviderFor(gc[k].videoId).open = "ok"
    /\ GC_Update(k, [gc[k] EXCEPT !.task = "iterating"])
    /\ UNCHANGED <<procVars, handlerVars, batchVars>>

\* downloader.getComments() rejects
GC_OpenReject(k) ==
    /\ ~Busy
    /\ gc[k].task = "opening"
    /\ ProviderFor(gc[k].videoId).open = "reject"
    /\ GC_Update(k, RaceSettle([gc[k] EXCEPT !.task = "failed"], "catch"))
    /\ UNCHANGED <<procVars, handlerVars, batchVars>>

\* for await: the iterator yields a comment
GC_IterNext(k) ==
    /\ ~Busy
    /\ gc[k].task = "iterating"
    /\ gc[k].pos < Len(ProviderFor(gc[k].videoId).comments)
    /\ GC_Update(k, GC_Consume(gc[k]))
    /\ UNCHANGED <<procVars, handlerVars, batchVars>>

\* for await: the iterator is exhausted
GC_IterDone(k) ==
    /\ ~Busy
    /\ gc[k].task = "iterating"
    /\ gc[k].pos = Len(ProviderFor(gc[k].videoId).comments)
    /\ ProviderFor(gc[k].videoId).end = "done"
    /\ GC_Update(k, RaceSettle([gc[k] EXCEPT !.task = "returned"], "task"))
    /\ UNCHANGED <<procVars, handlerVars, batchVars>>

\* for await: the iterator throws
GC_IterThrow(k) ==
    /\ ~Busy
    /\ gc[k].task = "iterating"
    /\ gc[k].pos = Len(ProviderFor(gc[k].videoId).comments)
    /\ ProviderFor(gc[k].videoId).end = "throw"
    /\ GC_Update(k, RaceSettle([gc[k] EXCEPT !.task = "failed"], "catch"))
    /\ UNCHANGED <<procVars, handlerVars, batchVars>>

\* faulty variant: the timer fires without rejecting the timeout promise
GC_TimerFireNoReject(k) ==
    /\ ~Busy
    /\ gc[k].timer = "armed"
    /\ GC_Update(k, [gc[k] EXCEPT !.timer = "fired"])
    /\ UNCHANGED <<procVars, handlerVars, batchVars>>

\* setTimeout(() => reject(new Error("Comment fetch timeout")), timeoutMs)
GC_TimerFire(k) ==
    /\ ~Busy
    /\ gc[k].timer = "armed"
    /\ GC_Update(k, RaceSettle([gc[k] EXCEPT !.timer = "fired"], "catch"))
    /\ UNCHANGED <<procVars, handlerVars, batchVars>>

(* ------------------------- the /search handler ------------------------- *)
NoResponse == [status |-> 0]

BadRequest(msg) == [status |-> 400, body |-> [error |-> msg]]

\* lines 64-82: validation, parameter parsing, the call of getSuggestions
Handle_Start ==
    /\ hpc = "start"
    /\ IF ~Given(req.q) \/ req.q[1] = ""
          THEN /\ response' = BadRequest("Missing ?q= parameter")
               /\ hpc' = "done"
               /\ UNCHANGED <<suggestionCount, videoCount, sanitizedQuery>>
          ELSE /\ suggestionCount' = ParseSuggestionCount(req.suggestionCount)
               /\ videoCount' = ParseVideoCount(req.videoCount)
               /\ sanitizedQuery' = Sanitize(req.q[1])
               /\ IF Len(Sanitize(req.q[1])) < QueryMinLen
                     THEN /\ response' = BadRequest("Query must be at least 2 characters long")
                          /\ hpc' = "done"
                     ELSE /\ response' = response
                          /\ hpc' = "suggest"
    /\ UNCHANGED <<procVars, req, world, suggestions, terms, searchResults, merged,
                   uniqueVideos, batchVars, inv, gc>>

\* the reply of the Video Search Provider to the search of the k-th term
SearchReplyFor(k) ==
    IF k \in DOMAIN world.search THEN world.search[k]
    ELSE [ok |-> TRUE, videos |-> <<>>]

\* lines 159-165: the response of the outer catch block
ServerError ==
    [status |-> 500,
     body |-> [error |-> "Internal server error occurred while processing your request",
               message |-> "Please try again later"]]

\* faulty variant: a failure of getSuggestions is not caught at lines 81-86 and
\* reaches the outer catch block
SuggestReplyUncaught ==
    /\ hpc = "suggest"
    /\ IF world.suggest.ok
          THEN /\ suggestions' = world.suggest.list
               /\ \E ts \in {<<sanitizedQuery>> \o Slice(world.suggest.list, 0, suggestionCount)} :
                     /\ terms' = ts
                     /\ searchResults' = [k \in DOMAIN ts |-> [state |-> "pending", value |-> <<>>]]
               /\ hpc' = "search"
               /\ response' = response
          ELSE /\ response' = ServerError
               /\ hpc' = "done"
               /\ UNCHANGED <<suggestions, terms, searchResults>>
    /\ UNCHANGED <<procVars, req, world, suggestionCount, videoCount, sanitizedQuery, merged,
                   uniqueVideos, batchVars, inv, gc>>

\* lines 82-100: getSuggestions settles (a failure leaves suggestions = []),
\* the terms are built and one search per term is started
SuggestReply ==
    /\ hpc = "suggest"
    /\ LET got == IF world.suggest.ok THEN world.suggest.list ELSE <<>>
           ts == <<sanitizedQuery>> \o Slice(got, 0, suggestionCount)
       IN /\ suggestions' = got
          /\ terms' = ts
          /\ searchResults' = [k \in DOMAIN ts |-> [state |-> "pending", value |-> <<>>]]
    /\ hpc' = "search"
    /\ UNCHANGED <<procVars, req, world, suggestionCount, videoCount, sanitizedQuery, merged,
                   uniqueVideos, response, batchVars, inv, gc>>

\* lines 92-99: the search of the k-th term settles; a failure is caught and
\* replaced by []
SearchReply(k) ==
    /\ hpc = "search"
    /\ ~Busy
    /\ searchResults[k].state = "pending"
    /\ LET r == SearchReplyFor(k)
       IN searchResults' = [searchResults EXCEPT ![k] =
             [state |-> "fulfilled", value |-> IF r.ok THEN r.videos ELSE <<>>]]
    /\ UNCHANGED <<procVars, req, world, hpc, suggestionCount, videoCount, sanitizedQuery,
                   suggestions, terms, merged, uniqueVideos, response, batchVars,
                   inv, gc>>

NoResults ==
    [status |-> 200,
     body |-> [query |-> sanitizedQuery, suggestionCount |-> suggestionCount,
               videoCount |-> videoCount, totalVideos |-> 0, videos |-> <<>>,
               message |-> "No videos found for the given query"]]

\* lines 103-130: every search has settled; merge, short-circuit when merged
\* is empty, otherwise dedupe, filter, sort, truncate and call
\* runInBatches(uniqueVideos, 5, fn).  Each intermediate array is bound by a
\* quantifier over a one-element set.
Handle_Merge ==
    /\ hpc = "search"
    /\ \A k \in DOMAIN searchResults : Settled(searchResults[k])
    /\ \E m \in {Merge([k \in DOMAIN searchResults |-> Outcome(searchResults[k])])} :
          /\ merged' = m
          /\ IF m = <<>>
                THEN /\ response' = NoResults
                     /\ hpc' = "done"
                     /\ UNCHANGED <<uniqueVideos, batchVars, inv, gc>>
                ELSE \E deduped \in {MapValues(m)} :
                     \E filtered \in {SelectSeq(deduped, HasViewsAndId)} :
                     \E sorted \in {SortByViews(filtered)} :
                     \E u \in {Slice(sorted, 0, videoCount)} :
                       /\ uniqueVideos' = u
                       /\ items' = u
                       /\ batchSize' = EnrichBatchSize
                       /\ i' = 0
                       /\ results' = <<>>
                       /\ rbpc' = "loop"
                       /\ mapj' = 0
                       /\ inv' = [k \in DOMAIN u |-> NoPromise]
                       /\ gc' = [k \in DOMAIN u |-> NoCall]
                       /\ hpc' = "enrich"
                       /\ response' = response
    /\ UNCHANGED <<procVars, req, world, suggestionCount, videoCount, sanitizedQuery,
                   suggestions, terms, searchResults>>

\* lines 151-158: runInBatches has returned; keep the fulfilled outcomes (the
\* enrichment function always returns a record, never null) and respond
Handle_Respond ==
    /\ hpc = "enrich"
    /\ rbpc = "returned"
    /\ LET IsFulfilled(r) == r.status = "fulfilled"
           kept == SelectSeq(results, IsFulfilled)
           enriched == [k \in 1..Len(kept) |-> kept[k].value]
       IN response' = [status |-> 200,
                       body |-> [query |-> sanitizedQuery, videos |-> enriched]]
    /\ hpc' = "done"
    /\ UNCHANGED <<procVars, req, world, suggestionCount, videoCount, sanitizedQuery,
                   suggestions, terms, searchResults, merged, uniqueVideos,
                   batchVars, inv, gc>>

(* --------------------- process lifecycle and shutdown ------------------ *)
\* most signals and process errors handled, most connections open at once
MaxEvents == 3
MaxConnections == 2

\* what triggers gracefulShutdown (lines 207-219)
Events == {"SIGTERM", "SIGINT", "uncaughtException", "unhandledRejection"}

\* exitCode is <<>> while the process runs and <<code>> once it has exited
Exited == exitCode # <<>>

\* the process after startup, with n requests in flight
ProcessInit(n) ==
    /\ server = "listening"
    /\ connections = n
    /\ closeListeners = <<>>
    /\ graceTimers = 0
    /\ received = <<>>
    /\ exitCode = <<>>

\* faulty variant: the callback exits with 1 whether or not it got an error
CloseCallbackAlwaysFails(err) == 1

\* the callback given to server.close (lines 189-197): the code it exits with
CloseCallback(err) == IF err THEN 1 ELSE 0

\* the server emits 'close' once it has stopped listening and its last
\* connection has ended; the listeners run in the order of the server.close
\* calls and the first one exits the process
EmitClose(listeners) == <<CloseCallback(listeners[1])>>

\* the server accepts a connection and its request starts
AcceptConnection ==
    /\ ~Exited
    /\ server = "listening"
    /\ connections < MaxConnections
    /\ connections' = connections + 1
    /\ UNCHANGED <<handlerVars, batchVars, inv, gc, server, closeListeners,
                   graceTimers, received, exitCode>>

\* a request in flight finishes and its connection ends
ConnectionEnd ==
    /\ ~Exited
    /\ connections > 0
    /\ connections' = connections - 1
    /\ IF server = "closing" /\ connections = 1
          THEN /\ server' = "closed"
               /\ exitCode' = EmitClose(closeListeners)
          ELSE UNCHANGED <<server, exitCode>>
    /\ UNCHANGED <<handlerVars, batchVars, inv, gc, closeListeners, graceTimers,
                   received>>

\* lines 186-204, called by the handlers of lines 207-219: server.close(cb)
\* stops the server listening and registers cb for 'close', with an error
\* argument when the server was not listening any more; the forced-shutdown
\* timer is armed.  A server without connections emits 'close' right after.
GracefulShutdown(signal) ==
    /\ ~Exited
    /\ Len(received) < MaxEvents
    /\ received' = Append(received, signal)
    /\ closeListeners' = Append(closeListeners, server # "listening")
    /\ graceTimers' = graceTimers + 1
    /\ IF connections = 0
          THEN /\ server' = "closed"
               /\ exitCode' = EmitClose(Append(closeListeners, server # "listening"))
          ELSE /\ server' = "closing"
               /\ exitCode' = exitCode
    /\ UNCHANGED <<handlerVars, batchVars, inv, gc, connections>>

\* lines 200-203: a forced-shutdown timer fires
GraceTimerFire ==
    /\ ~Exited
    /\ graceTimers > 0
    /\ graceTimers' = graceTimers - 1
    /\ exitCode' = <<1>>
    /\ UNCHANGED <<handlerVars, batchVars, inv, gc, server, connections,
                   closeListeners, received>>

(* ------------------- requests and provider behaviours ------------------ *)
\* most suggestions the Suggestion Provider returns
MaxSuggestions == 12

Video(id, views, title) ==
    [id |-> id, title |-> title, url |-> "", views |-> views, uploadedAt |-> ""]

Found(videos) == [ok |-> TRUE, videos |-> videos]
SearchFails == [ok |-> FALSE, videos |-> <<>>]

Provider(open, comments, end) ==
    [ctor |-> TRUE, open |-> open, comments |-> comments, end |-> end]
CtorThrows == [ctor |-> FALSE, open |-> "ok", comments |-> <<>>, end |-> "done"]

LongComment(n) == [text |-> "comment number " \o ToString(n) \o "!"]
ShortComment == [text |-> "nice"]
Comment15 == [text |-> "exactly15chars!"]

SuggestionList(n) == [k \in 1..n |-> "suggestion " \o ToString(k)]

Request(q, sc, vc) == [q |-> q, suggestionCount |-> sc, videoCount |-> vc]

\* the string made of n copies of the character c
RECURSIVE Repeat(_, _)
Repeat(c, n) == IF n = 0 THEN "" ELSE c \o Repeat(c, n - 1)

\* a query one character longer than the handler keeps
LongQuery == Repeat("x", QueryMaxLen) \o "y"

\* requests that vary the parameters, against providers that find two
\* videos for the original query and nothing for the suggestions
BaseWorld ==
    [suggest |-> [ok |-> TRUE, list |-> SuggestionList(MaxSuggestions)],
     search |-> <<Found(<<Video("a", 9, "A"), Video("b", 5, ""), Video("c", 7, "C")>>)>>,
     provider |-> [id \in {"a", "b", "c"} |->
                     IF id = "a" THEN Provider("ok", <<LongComment(1)>>, "done")
                     ELSE IF id = "b" THEN Provider("ok", <<>>, "done")
                     ELSE CtorThrows]]

Queries == {<<>>, <<"">>, <<"a">>, <<" a ">>, <<"ab">>, <<"  ab ">>, <<"   ">>,
            <<LongQuery>>}
CountParams == {<<>>, <<"0">>, <<"1">>, <<"2">>, <<"-1">>, <<"999">>, <<"abc">>,
                <<"2.5">>, <<"10">>, <<"50">>, <<"51">>, <<"11">>}

ParamScenarios ==
    {[req |-> Request(q, <<>>, <<>>), world |-> BaseWorld] : q \in Queries}
    \cup {[req |-> Request(<<"ab">>, sc, <<>>), world |-> BaseWorld] : sc \in CountParams}
    \cup {[req |-> Request(<<"ab">>, <<"-1">>, vc), world |-> BaseWorld] : vc \in CountParams}

\* what the searches find: duplicates across terms, entries without views or
\* without an id, ties, failing searches, a failing Suggestion Provider,
\* suggestions that repeat the query
SearchWorlds ==
    {[suggest |-> [ok |-> TRUE, list |-> SuggestionList(2)],
      search |-> <<Found(<<Video("a", 5, "first"), Video("b", 9, "B")>>),
                   Found(<<Video("a", 20, "second"), Video("c", 0, "C")>>),
                   SearchFails>>],
     [suggest |-> [ok |-> TRUE, list |-> SuggestionList(2)],
      search |-> <<Found(<<Video("a", 5, "first")>>),
                   Found(<<Video("a", 0, "second")>>)>>],
     [suggest |-> [ok |-> TRUE, list |-> SuggestionList(2)],
      search |-> <<Found(<<Video("c", 0, "C")>>)>>],
     [suggest |-> [ok |-> TRUE, list |-> SuggestionList(2)],
      search |-> <<Found(<<Video("", 7, "no id")>>)>>],
     [suggest |-> [ok |-> TRUE, list |-> SuggestionList(2)],
      search |-> <<SearchFails, SearchFails, SearchFails>>],
     [suggest |-> [ok |-> FALSE, list |-> <<>>],
      search |-> <<Found(<<Video("a", 5, ""), Video("", 8, "no id"), Video("c", 9, "C")>>),
                   Found(<<Video("b", 1, "B")>>)>>],
     [suggest |-> [ok |-> TRUE, list |-> SuggestionList(2)],
      search |-> <<Found(<<Video("a", 5, "first"), Video("b", 5, "B"), Video("c", 5, "C")>>),
                   Found(<<Video("a", 5, "second")>>)>>],
     [suggest |-> [ok |-> FALSE, list |-> <<>>],
      search |-> <<SearchFails>>],
     [suggest |-> [ok |-> TRUE, list |-> <<"ab", "ab">>],
      search |-> <<Found(<<Video("b", 3, "B"), Video("a", 5, "A"), Video("c", 8, "C")>>),
                   Found(<<Video("b", 3, "B"), Video("a", 5, "A"), Video("c", 8, "C")>>),
                   Found(<<Video("b", 3, "B"), Video("a", 5, "A"), Video("c", 8, "C")>>)>>]}

\* how the Comment Provider behaves for the videos a, b and c
ProviderWorlds ==
    {[id \in {"a", "b", "c"} |->
        IF id = "a" THEN Provider("ok", <<ShortComment, LongComment(1), Comment15,
                                          LongComment(2)>>, "done")
        ELSE IF id = "b" THEN CtorThrows
        ELSE Provider("reject", <<>>, "done")],
     [id \in {"a", "b", "c"} |->
        IF id = "a" THEN Provider("throw", <<>>, "done")
        ELSE IF id = "b" THEN Provider("ok", <<LongComment(1)>>, "throw")
        ELSE Provider("ok", <<LongComment(1)>>, "hang")],
     [id \in {"a", "b", "c"} |->
        IF id = "a" THEN Provider("ok", [n \in 1..(CommentLimit + 2) |-> LongComment(n)], "done")
        ELSE IF id = "b" THEN Provider("hang", <<>>, "done")
        ELSE Provider("ok", <<>>, "done")]}

MergeScenarios ==
    {[req |-> Request(<<"ab">>, <<"2">>, vc),
      world |-> [suggest |-> sw.suggest, search |-> sw.search, provider |-> pw]] :
        vc \in {<<>>, <<"2">>}, sw \in SearchWorlds, pw \in ProviderWorlds}

VideoId(n) == "v" \o ToString(n)

\* n videos v1..vn ranked in that order, found three per term; the Comment
\* Provider answers for the videos in answering and never resolves for the rest
EnrichWorld(n, answering) ==
    [suggest |-> [ok |-> TRUE, list |-> SuggestionList((n - 1) \div SearchLimit)],
     search |-> [t \in 1..((n + SearchLimit - 1) \div SearchLimit) |->
                   Found([j \in 1..Min(SearchLimit, n - SearchLimit * (t - 1)) |->
                            Video(VideoId(SearchLimit * (t - 1) + j),
                                  100 - (SearchLimit * (t - 1) + j), "")])],
     provider |-> [id \in {VideoId(k) : k \in 1..n} |->
                     IF \E k \in answering : id = VideoId(k)
                        THEN Provider("ok", <<LongComment(1)>>, "done")
                        ELSE Provider("hang", <<>>, "done")]]

\* the Comment Provider answers for the first a or for the last a of the n
\* ranked videos, a <= MaxAnswering
EnrichScenarios ==
    UNION {{[req |-> Request(<<"ab">>, <<>>, <<>>), world |-> EnrichWorld(n, answering)] :
              answering \in {1..a : a \in 0..MaxAnswering}
                             \cup {(n - a + 1)..n : a \in 0..Min(n, MaxAnswering)}} :
           n \in 1..MaxVideos}

Scenarios == ParamScenarios \cup MergeScenarios \cup EnrichScenarios

Init ==
    /\ \E s \in Scenarios : req = s.req /\ world = s.world
    /\ hpc = "start"
    /\ suggestionCount = 0
    /\ videoCount = 0
    /\ sanitizedQuery = ""
    /\ suggestions = <<>>
    /\ terms = <<>>
    /\ searchResults = <<>>
    /\ merged = <<>>
    /\ uniqueVideos = <<>>
    /\ response = NoResponse
    /\ items = <<>>
    /\ batchSize = 0
    /\ i = 0
    /\ results = <<>>
    /\ rbpc = "idle"
    /\ mapj = 0
    /\ inv = <<>>
    /\ gc = <<>>
    /\ ProcessInit(1)

Next ==
    \/ Handle_Start
    \/ SuggestReply
    \/ \E k \in DOMAIN searchResults : SearchReply(k)
    \/ Handle_Merge
    \/ RB_LoopTest
    \/ RB_MapEnrich
    \/ RB_BatchSettled
    \/ \E k \in DOMAIN gc : GC_OpenResolve(k)
    \/ \E k \in DOMAIN gc : GC_OpenReject(k)
    \/ \E k \in DOMAIN gc : GC_IterNext(k)
    \/ \E k \in DOMAIN gc : GC_IterDone(k)
    \/ \E k \in DOMAIN gc : GC_IterThrow(k)
    \/ \E k \in DOMAIN gc : GC_TimerFire(k)
    \/ Handle_Respond

Spec == Init /\ [][Next]_vars

(* ----------------------- runInBatches on its own ----------------------- *)
InitBatch ==
    /\ req = Request(<<>>, <<>>, <<>>)
    /\ world = BaseWorld
    /\ hpc = "none"
    /\ suggestionCount = 0
    /\ videoCount = 0
    /\ sanitizedQuery = ""
    /\ suggestions = <<>>
    /\ terms = <<>>
    /\ searchResults = <<>>
    /\ merged = <<>>
    /\ uniqueVideos = <<>>
    /\ response = NoResponse
    /\ \E n \in 0..MaxItems : items = [k \in 1..n |-> k]
    /\ batchSize \in 1..MaxBatchSize
    /\ i = 0
    /\ results = <<>>
    /\ rbpc = "loop"
    /\ mapj = 0
    /\ inv = [k \in DOMAIN items |-> NoPromise]
    /\ gc = <<>>
    /\ ProcessInit(0)

NextBatch ==
    \/ RB_LoopTest
    \/ RB_MapFn
    \/ RB_BatchSettled
    \/ \E k \in DOMAIN inv : \E st \in {"fulfilled", "rejected"} : FnSettle(k, st)

SpecBatch == InitBatch /\ [][NextBatch]_vars

(* ------------------------ getComments on its own ----------------------- *)
\* largest limit tried and most comments the Comment Provider delivers
MaxLimit == 3
MaxComments == 3

CommentKinds == {LongComment(1), LongComment(2), ShortComment, Comment15}

\* the Comment Provider for video "a": it fails to open, or it delivers up
\* to MaxComments comments and then ends, throws or hangs
CommentProviders ==
    {Provider("reject", <<>>, "done"), Provider("hang", <<>>, "done")}
    \cup UNION {{Provider("ok", cs, e) : cs \in [1..n -> CommentKinds],
                                        e \in {"done", "throw", "hang"}} :
                n \in 0..MaxComments}

\* one call getComments("a", limit), made outside any /search request
InitComments ==
    /\ req = Request(<<>>, <<>>, <<>>)
    /\ \E p \in CommentProviders :
          world = [suggest |-> [ok |-> TRUE, list |-> <<>>], search |-> <<>>,
                   provider |-> [id \in {"a"} |-> p]]
    /\ hpc = "none"
    /\ suggestionCount = 0
    /\ videoCount = 0
    /\ sanitizedQuery = ""
    /\ suggestions = <<>>
    /\ terms = <<>>
    /\ searchResults = <<>>
    /\ merged = <<>>
    /\ uniqueVideos = <<>>
    /\ response = NoResponse
    /\ items = <<Video("a", 1, "")>>
    /\ batchSize = 0
    /\ i = 0
    /\ results = <<>>
    /\ rbpc = "idle"
    /\ mapj = 0
    /\ inv = <<NoPromise>>
    /\ \E limit \in 0..MaxLimit : gc = <<GC_Call("a", limit)>>
    /\ ProcessInit(0)

NextComments ==
    \/ GC_OpenResolve(1)
    \/ GC_OpenReject(1)
    \/ GC_IterNext(1)
    \/ GC_IterDone(1)
    \/ GC_IterThrow(1)
    \/ GC_TimerFire(1)

SpecComments == InitComments /\ [][NextComments]_vars

(* ----------------------- the process shutting down --------------------- *)
\* the process is up with some requests in flight; what the requests do is
\* left out, only when they end matters
InitShutdown ==
    /\ req = Request(<<>>, <<>>, <<>>)
    /\ world = BaseWorld
    /\ hpc = "none"
    /\ suggestionCount = 0
    /\ videoCount = 0
    /\ sanitizedQuery = ""
    /\ suggestions = <<>>
    /\ terms = <<>>
    /\ searchResults = <<>>
    /\ merged = <<>>
    /\ uniqueVideos = <<>>
    /\ response = NoResponse
    /\ items = <<>>
    /\ batchSize = 0
    /\ i = 0
    /\ results = <<>>
    /\ rbpc = "idle"
    /\ mapj = 0
    /\ inv = <<>>
    /\ gc = <<>>
    /\ \E n \in 0..MaxConnections : ProcessInit(n)

NextShutdown ==
    \/ AcceptConnection
    \/ ConnectionEnd
    \/ \E signal \in Events : GracefulShutdown(signal)
    \/ GraceTimerFire

SpecShutdown == InitShutdown /\ [][NextShutdown]_vars

\* a timer that is armed fires while the process runs; a request in flight may
\* never end
SpecShutdownLive == SpecShutdown /\ WF_vars(GraceTimerFire)

(* ------------------------------ fairness ------------------------------- *)
\* the event loop runs every callback that is ready, timers fire, and a
\* provider that answers at all answers eventually
SpecLive == Spec /\ WF_vars(Next)

(* ======================= properties of runInBatches ==================== *)

(* C1: while runInBatches runs, the invocations of fn that have started and
   not yet settled never number more than batchSize *)
C1_AtMostBatchSizePending == Cardinality(Pending) <= batchSize

C1_Witness ==
    /\ hpc = "none"
    /\ Len(items) = 12
    /\ batchSize = 5
    /\ i = 5
    /\ Cardinality(Pending) = 5

(* C2: while a /search request is enriched, at most 5 Comment Provider
   fetches are running, a fetch that lost its race against the timer and has
   not finished being counted as running *)
C2_AtMostFiveFetchesRunning == Cardinality(Running) <= EnrichBatchSize

(* C3: when runInBatches returns, results has one outcome per item and the
   outcome at each index is the outcome of fn on the item at that index *)
C3_OneOutcomePerItemInOrder ==
    (hpc = "none" /\ rbpc = "returned") =>
        /\ Len(results) = Len(items)
        /\ \A k \in DOMAIN items :
              /\ inv[k].state \in {"fulfilled", "rejected"}
              /\ results[k] = [status |-> inv[k].state, value |-> FnValue(items[k])]

C3_Witness ==
    /\ hpc = "none"
    /\ rbpc = "returned"
    /\ Len(items) = 12
    /\ batchSize = 5
    /\ results[1].status = "rejected"
    /\ results[2].status = "fulfilled"
    /\ results[12].status = "rejected"

(* C4: a failure of fn for one item, thrown at the call or asynchronous,
   gives that item a rejected outcome, leaves every other item invoked, and
   runInBatches completes normally with an outcome for every item *)
C4_FailureIsolated ==
    /\ rbpc # "threw"
    /\ rbpc = "returned" =>
          /\ Len(results) = Len(items)
          /\ \A k \in DOMAIN items :
                /\ inv[k].state # "none"
                /\ inv[k].state = "rejected" => results[k].status = "rejected"

(* ======================== properties of getComments ==================== *)

(* C5: getComments never fails to its caller: whatever way the Comment
   Provider fails (constructor, opening the sequence, during iteration) and
   when the timer fires, the call completes normally with an empty sequence *)
C5_GetCommentsNeverFails ==
    \A k \in DOMAIN gc :
        /\ gc[k].state # "rejected"
        /\ (gc[k].state = "fulfilled" /\ gc[k].won = "catch") => gc[k].value = <<>>

(* ========================= properties of /search ======================= *)
\* the Comment Provider never resolves for this video
NeverResolves(id) ==
    \/ ProviderFor(id).open = "hang"
    \/ ProviderFor(id).open = "ok" /\ ProviderFor(id).end = "hang"

CommentText(c) == c.text
IsLongText(t) == Len(t) > MinCommentLen

\* the comments a complete fetch of this video collects (limit >= 1)
FetchedComments(id, limit) ==
    LET all == ProviderFor(id).comments
        texts == [k \in DOMAIN all |-> CommentText(all[k])]
    IN Slice(SelectSeq(texts, IsLongText), 0, limit)

C6_Answered ==
    /\ response.status = 200
    /\ Len(response.body.videos) = Len(uniqueVideos)
    /\ \A k \in DOMAIN uniqueVideos :
          LET e == response.body.videos[k]
          IN /\ e.id = uniqueVideos[k].id
             /\ NeverResolves(e.id) => e.comments = <<>>
             /\ (~NeverResolves(e.id) /\ gc[k].won = "task")
                   => e.comments = FetchedComments(e.id, CommentLimit)

(* C6: when the Comment Provider never resolves for a ranked video, the
   request still ends, once the timers have fired and the other providers
   have answered, in a 200 response in which that video has comments = []
   and the videos whose fetch completed carry their fetched comments *)
C6_HangingProviderStillAnswered ==
    (\E k \in DOMAIN uniqueVideos : NeverResolves(uniqueVideos[k].id)) ~> C6_Answered

C6_Witness ==
    /\ response.status = 200
    /\ \E k \in DOMAIN uniqueVideos :
          /\ NeverResolves(uniqueVideos[k].id)
          /\ response.body.videos[k].id = uniqueVideos[k].id
          /\ response.body.videos[k].comments = <<>>
    /\ \E k \in DOMAIN uniqueVideos :
          /\ ~NeverResolves(uniqueVideos[k].id)
          /\ response.body.videos[k].comments # <<>>

\* the first / last entry of merged that has this id
FirstOccurrence(id) ==
    merged[CHOOSE p \in DOMAIN merged :
              /\ merged[p].id = id
              /\ \A r \in DOMAIN merged : merged[r].id = id => p <= r]
LastOccurrence(id) ==
    merged[CHOOSE p \in DOMAIN merged :
              /\ merged[p].id = id
              /\ \A r \in DOMAIN merged : merged[r].id = id => p >= r]

\* some identifier occurs in merged with different view counts
ConflictingDuplicates ==
    \E p, r \in DOMAIN merged : merged[p].id = merged[r].id /\ merged[p].views # merged[r].views

Responded200WithVideos ==
    /\ response.status = 200
    /\ response.body.videos # <<>>

(* C7 as claimed: of several merged entries with the same identifier the
   first in merge order is the one ranked and returned *)
C7_FirstOccurrenceKept ==
    Responded200WithVideos =>
        /\ \A k \in DOMAIN uniqueVideos :
              uniqueVideos[k] = FirstOccurrence(uniqueVideos[k].id)
        /\ \A k \in DOMAIN response.body.videos :
              LET e == response.body.videos[k]
              IN e.views = FirstOccurrence(e.id).views

(* C7 amended: of several merged entries with the same identifier the last
   in merge order is the one ranked and returned: its view count ranks the
   video and its fields appear in the response *)
C7_LastOccurrenceKept ==
    Responded200WithVideos =>
        /\ \A k \in DOMAIN uniqueVideos :
              uniqueVideos[k] = LastOccurrence(uniqueVideos[k].id)
        /\ \A k \in DOMAIN response.body.videos :
              LET e == response.body.videos[k]
              IN /\ e.views = LastOccurrence(e.id).views
                 /\ e = EnrichedVideo(LastOccurrence(e.id), e.comments)

C7_Witness ==
    /\ Responded200WithVideos
    /\ ConflictingDuplicates
    /\ \E k \in DOMAIN response.body.videos :
          LET e == response.body.videos[k]
          IN /\ e.views = LastOccurrence(e.id).views
             /\ e.views # FirstOccurrence(e.id).views
             /\ e.title = "second"

(* C8: a response to a valid query whose videos array is empty is the
   no-results shape, with the message field and totalVideos = 0, and no
   Comment Provider fetch was started for the request *)
C8_EmptyVideosIsNoResultsShape ==
    (response.status = 200 /\ response.body.videos = <<>>) =>
        /\ "message" \in DOMAIN response.body
        /\ "totalVideos" \in DOMAIN response.body
        /\ response.body.totalVideos = 0
        /\ \A k \in DOMAIN gc : gc[k].state = "none"

\* p is given and is an integer in decimal notation
IsInteger(p) ==
    /\ Given(p)
    /\ LET s == p[1]
           u == IF Len(s) > 0 /\ CharAt(s, 1) = "-" THEN Drop(s, 1) ELSE s
       IN Len(u) > 0 /\ DigitPrefixLen(u) = Len(u)

IntegerValue(p) ==
    LET s == p[1]
    IN IF CharAt(s, 1) = "-"
          THEN 0 - DecimalVal(Drop(s, 1), Len(s) - 1)
          ELSE DecimalVal(s, Len(s))

\* the handler has parsed the parameters of a request that has a query
Parsed == hpc # "start" /\ Given(req.q) /\ req.q[1] # ""

\* p is absent, an integer, or a string that does not start with an integer
\* (a string such as "2.5" is left out: parseInt reads its leading digits)
PlainParam(p) == IsInteger(p) \/ ParseInt(p) = <<>>

ClaimedVideoCount ==
    IF IsInteger(req.videoCount)
       THEN Min(Max(IntegerValue(req.videoCount), MinVideoCount), MaxVideoCount)
       ELSE DefaultVideoCount

(* C9: the effective videoCount is min(max(v, 1), 50) for every integer v
   given, and 15 when the parameter is absent or not an integer; videoCount=0
   returns at most one video *)
C9_VideoCountClamped ==
    (Parsed /\ PlainParam(req.videoCount)) =>
        /\ videoCount = ClaimedVideoCount
        /\ (response.status = 200 => Len(response.body.videos) <= ClaimedVideoCount)

ClaimedSuggestionCount ==
    IF IsInteger(req.suggestionCount)
       THEN Min(Max(IntegerValue(req.suggestionCount), 0), MaxSuggestionCount)
       ELSE DefaultSuggestionCount

(* C10: the effective suggestionCount is min(max(v, 0), 10) for every
   integer v given, and 4 only when the parameter is absent or not an
   integer; suggestionCount=0 searches the sanitized query alone *)
C10_SuggestionCountClamped ==
    (Parsed /\ PlainParam(req.suggestionCount)) =>
        /\ suggestionCount = ClaimedSuggestionCount
        /\ (hpc \in {"search", "enrich"} =>
              terms = <<sanitizedQuery>> \o Slice(suggestions, 0, ClaimedSuggestionCount))

(* ================== further properties of merge and rank =============== *)
\* the identifiers found by the searches
MergedIds == {merged[p].id : p \in DOMAIN merged}

\* no entry of merged with this identifier has a view count
NoViewCount(id) == \A p \in DOMAIN merged : merged[p].id = id => merged[p].views = 0

(* C11: a video found with an identifier and no view count (absent or 0) is
   kept by the merge/rank step: it is in the ranked list and, when the
   distinct videos found are no more than videoCount, it is in the response
   with views = 0 *)
C11_NoViewCountKept ==
    \A id \in MergedIds :
        NoViewCount(id) =>
            /\ hpc \in {"enrich", "done"} =>
                  \E k \in DOMAIN uniqueVideos : uniqueVideos[k].id = id
            /\ (hpc = "done" /\ response.status = 200
                    /\ Cardinality(MergedIds) <= videoCount) =>
                  \E k \in DOMAIN response.body.videos :
                      /\ response.body.videos[k].id = id
                      /\ response.body.videos[k].views = 0

(* =================== provider failures and validation ================== *)
\* the request carries a query that passes validation
ValidQuery == Given(req.q) /\ Len(Sanitize(req.q[1])) >= QueryMinLen

\* every per-term search of the request fails
AllSearchesFail == \A k \in DOMAIN terms : ~SearchReplyFor(k).ok

C12_NoServerError ==
    /\ response.status \in {0, 200}
    /\ (~world.suggest.ok /\ hpc \in {"search", "enrich", "done"}) =>
          /\ terms = <<sanitizedQuery>>
          /\ Len(searchResults) = 1
    /\ (hpc = "done" /\ AllSearchesFail) =>
          /\ response.status = 200
          /\ response.body.videos = <<>>
          /\ "message" \in DOMAIN response.body

(* C12: for a valid query no failure of a provider (suggestions throwing,
   searches failing, comment fetches failing or timing out) gives a 500, and
   the request ends in a 200 response; when the Suggestion Provider throws
   the only term searched is the sanitized query, and when every search
   fails the response is videos = [] with a message field *)
C12_ProviderFailuresAbsorbed ==
    /\ [](ValidQuery => C12_NoServerError)
    /\ ValidQuery ~> (response.status = 200)

C12_Witness ==
    /\ ValidQuery
    /\ ~world.suggest.ok
    /\ terms = <<sanitizedQuery>>
    /\ response.status = 200
    /\ response.body.videos # <<>>
    /\ \E k \in DOMAIN gc :
          /\ gc[k].state = "fulfilled"
          /\ gc[k].won = "catch"
          /\ gc[k].timer = "fired"
    /\ \E k \in DOMAIN gc : gc[k].task = "failed"

(* ======================= properties of the response ==================== *)
ResponseVideos == response.body.videos

\* the same identifier was found more than once
DuplicatesFound ==
    \E p, r \in DOMAIN merged : p # r /\ merged[p].id = merged[r].id

(* C13: in every /search response no two entries of videos have the same
   id, whatever the per-term result lists and also when terms repeat *)
C13_NoDuplicateIds ==
    response.status = 200 =>
        \A j, k \in DOMAIN ResponseVideos :
            j # k => ResponseVideos[j].id # ResponseVideos[k].id

C13_Witness ==
    /\ response.status = 200
    /\ Len(terms) >= 2
    /\ terms[1] = terms[2]
    /\ DuplicatesFound
    /\ Len(ResponseVideos) >= 2

(* C14: in every /search response videos is ordered by views, non-increasing
   from the first entry to the last, whatever the order in which the searches
   and the comment fetches complete *)
C14_SortedByViews ==
    response.status = 200 =>
        \A j, k \in DOMAIN ResponseVideos :
            j < k => ResponseVideos[j].views >= ResponseVideos[k].views

C14_Witness ==
    /\ response.status = 200
    /\ \E p, r \in DOMAIN merged : p < r /\ merged[p].views < merged[r].views
    /\ Len(ResponseVideos) >= 3
    /\ ResponseVideos[1].views > ResponseVideos[Len(ResponseVideos)].views

(* C15: for every valid query the response has at most videoCount videos,
   videoCount being the effective value, itself between 1 and 50 *)
C15_AtMostVideoCount ==
    (ValidQuery /\ response.status = 200) =>
        /\ videoCount \in MinVideoCount..MaxVideoCount
        /\ Len(ResponseVideos) <= videoCount
        /\ Len(ResponseVideos) <= MaxVideoCount

\* the ranked videos before truncation number more than videoCount
C15_Witness ==
    /\ ValidQuery
    /\ response.status = 200
    /\ Len(ResponseVideos) = videoCount
    /\ Cardinality({id \in MergedIds : LastOccurrence(id).views # 0}) > videoCount

\* positions of the characters of q that are not blanks
NonBlanks(q) == {k \in 1..Len(q) : CharAt(q, k) # " "}

\* length of q once trimmed and truncated to 100 characters
SanitizedLength(q) ==
    IF NonBlanks(q) = {} THEN 0
    ELSE LET first == CHOOSE k \in NonBlanks(q) : \A r \in NonBlanks(q) : k <= r
             last == CHOOSE k \in NonBlanks(q) : \A r \in NonBlanks(q) : k >= r
         IN Min(last - first + 1, QueryMaxLen)

\* the request has no q, or a q too short once trimmed and truncated
InvalidQuery == ~Given(req.q) \/ SanitizedLength(req.q[1]) < QueryMinLen

(* C16: a request with no q, or whose query trimmed and truncated to 100
   characters has fewer than 2 characters, gets a 400 with an error body and
   no Suggestion, Search or Comment Provider call is made for it *)
C16_InvalidQueryRejected ==
    (InvalidQuery /\ hpc # "start") =>
        /\ hpc = "done"
        /\ response.status = 400
        /\ "error" \in DOMAIN response.body
        /\ suggestions = <<>>
        /\ terms = <<>>
        /\ searchResults = <<>>
        /\ gc = <<>>

\* a query that is long enough before trimming only
C16_Witness ==
    /\ Given(req.q)
    /\ Len(req.q[1]) >= QueryMinLen
    /\ InvalidQuery
    /\ response.status = 400

(* ================= enrichment and the fetch-vs-timer race ============== *)
\* the getComments call of item k ended without the comments of its fetch
FetchFailed(k) == gc[k].state = "rejected" \/ gc[k].won = "catch"

(* C19: enrichment neither drops nor reorders a ranked video: when the
   ranked list is not empty the response has the ranked videos, in rank
   order, each with the fields of its summary, whatever comment fetches fail
   or time out; a failed fetch only makes that video's comments [] *)
C19_EnrichmentKeepsRanking ==
    (hpc = "done" /\ response.status = 200 /\ uniqueVideos # <<>>) =>
        /\ Len(ResponseVideos) = Len(uniqueVideos)
        /\ \A k \in DOMAIN uniqueVideos :
              /\ ResponseVideos[k].id = uniqueVideos[k].id
              /\ ResponseVideos[k] =
                    EnrichedVideo(uniqueVideos[k], ResponseVideos[k].comments)
              /\ FetchFailed(k) => ResponseVideos[k].comments = <<>>

C19_Witness ==
    /\ hpc = "done"
    /\ response.status = 200
    /\ Len(uniqueVideos) = 3
    /\ gc[2].state = "rejected"
    /\ gc[1].won = "task"
    /\ ResponseVideos[1].comments # <<>>
    /\ ResponseVideos[2].id = uniqueVideos[2].id

\* one step of the program, seen from the getComments call of item k
C20_CallStep(k) ==
    /\ gc[k].state = "fulfilled" =>
          /\ gc'[k].state = "fulfilled"
          /\ gc'[k].value = gc[k].value
          /\ gc'[k].won = gc[k].won
          /\ inv'[k] = inv[k]
    /\ gc'[k].state = "fulfilled" =>
          \/ /\ gc'[k].won = "task"
             /\ gc'[k].task = "returned"
             /\ gc'[k].value = gc'[k].comments
             /\ gc[k].state = "pending" => gc[k].timer = "armed"
          \/ /\ gc'[k].won = "catch"
             /\ gc'[k].value = <<>>

(* C20: the race of the fetch against the timer settles once and is all or
   nothing: getComments returns the complete list of a fetch that finished
   before the timer fired, or []; what a fetch had collected when the timer
   fired is never returned, and nothing that happens after the call has
   returned (the fetch finishing or failing, the timer firing) changes the
   value returned, the enrichment outcome or the response *)
C20_RaceSettlesOnce ==
    [][/\ \A k \in DOMAIN gc : C20_CallStep(k)
       /\ response.status # 0 => response' = response]_vars

\* in one response: a fetch overtaken by its timer while it held a comment
\* and that then finished, and a fetch that finished before its timer fired
C20_Witness ==
    /\ response.status = 200
    /\ \E j, k \in DOMAIN gc :
          /\ gc[k].won = "catch"
          /\ gc[k].timer = "fired"
          /\ gc[k].task = "returned"
          /\ gc[k].comments # <<>>
          /\ gc[k].value = <<>>
          /\ ResponseVideos[k].comments = <<>>
          /\ gc[j].won = "task"
          /\ gc[j].timer = "fired"
          /\ gc[j].value # <<>>
          /\ ResponseVideos[j].comments = gc[j].value

(* C18: for every limit >= 0 and every comment sequence the provider
   delivers, what getComments returns on the success path has at most limit
   entries, all longer than 15 characters, and is the first min(limit,
   number of qualifying comments) qualifying comments in provider order *)
C18_FirstQualifyingComments ==
    \A k \in DOMAIN gc :
        (gc[k].state = "fulfilled" /\ gc[k].won = "task") =>
            /\ Len(gc[k].value) <= gc[k].limit
            /\ \A j \in DOMAIN gc[k].value : Len(gc[k].value[j]) > MinCommentLen
            /\ gc[k].value = FetchedComments(gc[k].videoId, gc[k].limit)

(* ============================ process shutdown ========================= *)
ShutdownStarted == received # <<>>

\* one of the forced-shutdown timers has fired
GraceTimerFired == graceTimers < Len(received)

C17_ExitCode ==
    /\ ShutdownStarted => server # "listening"
    /\ Exited =>
          /\ ShutdownStarted
          /\ IF server = "closed" /\ ~GraceTimerFired
                THEN exitCode = <<0>>
                ELSE /\ GraceTimerFired
                     /\ server = "closing"
                     /\ exitCode # <<0>>

(* C17: after a termination signal or a process-level unhandled error the
   server stops accepting connections and the process eventually exits: with
   code 0 when the server finishes closing (no request left in flight)
   before the forced-shutdown timer fires, and otherwise with a non-zero
   code when that timer fires; also when several such events arrive during
   one shutdown *)
C17_ShutdownExits ==
    /\ []C17_ExitCode
    /\ ShutdownStarted ~> Exited

\* the server finished closing after a second event had arrived
C17_Witness ==
    /\ Len(received) >= 2
    /\ received[1] # received[2]
    /\ server = "closed"
    /\ closeListeners[2] = TRUE
    /\ exitCode = <<0>>
====
